---- MODULE Spec2Model ----
(***************************************************************************)
(* Model of src/bot.py: the polling loop main_loop with its detection,     *)
(* confirmation, trade-plan and dedup logic.                                *)
(*                                                                          *)
(* Number representation.  Python floats are modelled by exact numbers:     *)
(*   - prices are integers in thousandths (108.0 is 108000), so that        *)
(*     round(x, 2) is a real rounding, to the nearest multiple of 10;       *)
(*   - volumes, open-interest samples and liquidation amounts are integers; *)
(*   - a quotient a / b is the record [num |-> a, den |-> b] with den > 0,  *)
(*     and the float constants are such records (2.2 is 22/10);             *)
(*   - c["time"] * 1000 is kept as quotient and remainder by 1000, because  *)
(*     TLC's integers are 32 bits wide and a millisecond timestamp is not.  *)
(* Indexes into Python lists keep the source's 0-based value; the TLA+      *)
(* sequence element of index i is seq[i + 1].                               *)
(***************************************************************************)
EXTENDS Integers, Sequences, FiniteSets, TLC

(* ------------------------------ CONFIG ------------------------------ *)
FUTURES_SYMBOL == "BTCUSDT"
RR == 4
VOL_SMA_LEN == 20
VOL_MULT == [num |-> 22, den |-> 10]
WICK_RATIO == [num |-> 35, den |-> 100]
USE_NY_SESSION == TRUE
NY_START_UTC == 12
NY_END_UTC == 17
LIQ_THRESHOLD == 10000
MIN_RANGE == 0
\* check_oi_spike's default threshold_percent = 1.5
OI_THRESHOLD_PERCENT == [num |-> 15, den |-> 10]
\* len(oi_hist) > 500: oi_hist = oi_hist[-500:]
OI_HIST_MAX == 500
\* len(recent_signals) > 2000: keep list(recent_signals)[-1000:]
SIGNALS_CAP == 2000
SIGNALS_KEEP == 1000
\* idx < len(candles) - 4
RECENT_BARS == 4

(* ------------------------------ bounds ------------------------------ *)
\* iterations of the loop that receive market data; later ones find no candles
MaxCycles == 2
\* bars of a fetched series
SeriesLen == 25
\* how many of the latest insertions the set's listing may place anywhere
TruncFront == 1

(* ------------------------------ helpers ----------------------------- *)
Min(a, b) == IF a < b THEN a ELSE b
Max(a, b) == IF a > b THEN a ELSE b
Abs(a) == IF a < 0 THEN 0 - a ELSE a
Range(s) == {s[i] : i \in 1..Len(s)}

\* seq[-n:]
LastN(s, n) == IF Len(s) <= n THEN s ELSE SubSeq(s, Len(s) - n + 1, Len(s))

RECURSIVE SeqSum(_)
SeqSum(s) == IF s = <<>> THEN 0 ELSE s[1] + SeqSum(Tail(s))

\* a / b > c / d and a / b >= c / d for positive denominators
RatGT(a, b) == a.num * b.den > b.num * a.den
RatGE(a, b) == a.num * b.den >= b.num * a.den
RatMul(a, b) == [num |-> a.num * b.num, den |-> a.den * b.den]
RatInt(n) == [num |-> n, den |-> 1]

\* round(x, 2) of a price in thousandths: the nearest multiple of 10, a tie
\* going to the even hundredth
round2(x) ==
    LET q == x \div 10
        r == x % 10
    IN  IF r < 5 THEN q * 10
        ELSE IF r > 5 THEN (q + 1) * 10
        ELSE IF q % 2 = 0 THEN q * 10 ELSE (q + 1) * 10

(* ------------------------------- util ------------------------------- *)
RECURSIVE sma_loop(_, _, _, _, _)
sma_loop(values, length, i, s, out) ==
    IF i >= Len(values) THEN out
    ELSE LET s1 == s + values[i + 1]
         IN  IF i >= length
             THEN LET s2 == s1 - values[i - length + 1]
                  IN  sma_loop(values, length, i + 1, s2,
                               Append(out, [num |-> s2, den |-> length]))
             ELSE sma_loop(values, length, i + 1, s1,
                           Append(out, [num |-> s1, den |-> i + 1]))

\* a faulty variant: the value leaving the window is never subtracted
sma_no_evict(values, length) ==
    [i \in 1..Len(values) |->
        [num |-> SeqSum(SubSeq(values, 1, i)),
         den |-> IF i - 1 >= length THEN length ELSE i]]

sma(values, length) == sma_loop(values, length, 0, 0, <<>>)

candle_delta(c) ==
    IF c.close > c.open THEN c.volume
    ELSE IF c.close < c.open THEN 0 - c.volume ELSE 0

RECURSIVE cvd_loop(_, _, _, _)
cvd_loop(candles_, i, s, out) ==
    IF i >= Len(candles_) THEN out
    ELSE LET s1 == s + candle_delta(candles_[i + 1])
         IN  cvd_loop(candles_, i + 1, s1, Append(out, s1))

compute_cvd(candles_) == cvd_loop(candles_, 0, 0, <<>>)

(* ------------------------ footprint detection ----------------------- *)
\* if rng <= 0: continue
skip_candle(rng) == rng <= 0

\* lower_ratio >= WICK_RATIO, with lower_ratio = lower_wick / rng
wick_ok(wick, rng) == RatGE([num |-> wick, den |-> rng], WICK_RATIO)

range_ok(rng) == rng >= MIN_RANGE \/ MIN_RANGE = 0

RECURSIVE detect_loop(_, _, _, _, _)
detect_loop(candles_, vol_sma, i, buy, sell) ==
    IF i >= Len(candles_)
    THEN [buy_idxs |-> buy, sell_idxs |-> sell, raised |-> FALSE]
    ELSE LET c == candles_[i + 1]
             rng == c.high - c.low
         IN  IF skip_candle(rng) THEN detect_loop(candles_, vol_sma, i + 1, buy, sell)
             ELSE IF rng = 0
             \* lower_wick / rng raises ZeroDivisionError
             THEN [buy_idxs |-> buy, sell_idxs |-> sell, raised |-> TRUE]
             ELSE LET lower_wick == Min(c.open, c.close) - c.low
                      upper_wick == c.high - Max(c.open, c.close)
                      vol_ok == IF i < Len(vol_sma)
                                THEN RatGT(RatInt(c.volume), RatMul(vol_sma[i + 1], VOL_MULT))
                                ELSE TRUE
                      delta == candle_delta(c)
                      is_buy == vol_ok /\ wick_ok(lower_wick, rng) /\ delta > 0 /\ range_ok(rng)
                      is_sell == vol_ok /\ wick_ok(upper_wick, rng) /\ delta < 0 /\ range_ok(rng)
                  IN  detect_loop(candles_, vol_sma, i + 1,
                                  IF is_buy THEN Append(buy, i) ELSE buy,
                                  IF is_sell THEN Append(sell, i) ELSE sell)

detect_stop_hunt_and_footprint(candles_) ==
    LET volumes == [i \in 1..Len(candles_) |-> candles_[i].volume]
        vol_sma == sma(volumes, VOL_SMA_LEN)
        r == detect_loop(candles_, vol_sma, 0, <<>>, <<>>)
    IN  [buy_idxs |-> r.buy_idxs, sell_idxs |-> r.sell_idxs,
         cvd |-> compute_cvd(candles_), raised |-> r.raised]

\* c["time"] * 1000 at the call site
to_millis(t) == [q |-> t, r |-> 0]

is_in_ny_session(ts) ==
    LET utc_hour == (ts.q \div 3600) % 24
    IN  NY_START_UTC <= utc_hour /\ utc_hour < NY_END_UTC

check_oi_spike(hist) ==
    IF Len(hist) < 12 THEN FALSE
    ELSE LET window == SubSeq(hist, Len(hist) - 11, Len(hist) - 2)
             sma10 == [num |-> SeqSum(window), den |-> 10]
             last == hist[Len(hist)]
         IN  IF sma10.num <= 0 THEN FALSE
             \* (last - sma10) / sma10 * 100.0 >= threshold_percent
             ELSE RatGE([num |-> (last * sma10.den - sma10.num) * 100, den |-> sma10.num],
                        OI_THRESHOLD_PERCENT)

(* -------------------------- liquidation mass ------------------------ *)
\* max(50.0, c["close"] * 0.005), as a quotient by 1000
liq_window(close) == [num |-> Max(50000 * 1000, close * 5), den |-> 1000]

RECURSIVE mass_loop(_, _, _, _)
mass_loop(price, hm, window, todo) ==
    IF todo = {} THEN 0
    ELSE LET p == CHOOSE x \in todo : TRUE
         IN  (IF RatGE(window, RatInt(Abs(p - price))) THEN hm[p] ELSE 0)
             + mass_loop(price, hm, window, todo \ {p})

liquidation_mass_near(price, hm, window) == mass_loop(price, hm, window, DOMAIN hm)

(* ------------------- what the collaborators return ------------------ *)
Bar(o, h, l, c, v) == [open |-> o, high |-> h, low |-> l, close |-> c, volume |-> v]

\* candle shapes by name: Q quiet, U small bullish, D small bearish, B and S the
\* buy and sell footprints, M a footprint of moderate volume, W a footprint whose
\* lower wick is exactly WICK_RATIO of the range, Z a candle with high = low,
\* T a footprint whose prices differ by less than a hundredth
Shape(n) ==
    CASE n = "Q" -> Bar(100000, 101000,  99000, 100000,  300)
      [] n = "U" -> Bar(100000, 101000,  99500, 100500,  300)
      [] n = "D" -> Bar(100500, 101000,  99500, 100000,  300)
      [] n = "B" -> Bar(105000, 110000,  90000, 108000, 1000)
      [] n = "S" -> Bar( 95000, 110000,  90000,  92000, 1000)
      [] n = "M" -> Bar(105000, 110000,  90000, 108000,  740)
      [] n = "W" -> Bar( 97000, 110000,  90000, 100000, 1000)
      [] n = "Z" -> Bar(100000, 100000, 100000, 100000, 1000)
      [] n = "T" -> Bar(100003, 100005, 100001, 100004, 1000)

\* seconds of one bar: _interval_to_seconds("15m")
BarSeconds == 15 * 60
DaySeconds == 24 * 3600

\* candle times of the first of a series' last five bars: 12:00 and 16:30 UTC
\* of day 100
Noon == 100 * DaySeconds + 12 * 3600
Late == 100 * DaySeconds + 16 * 3600 + 2 * BarSeconds

\* a series as fetch_futures_klines returns it: oldest first, SeriesLen bars
Series(anchor, pat) ==
    [i \in 1..SeriesLen |->
        LET k == i - (SeriesLen - 5)
            b == Shape(IF k >= 1 THEN pat[k] ELSE "Q")
        IN  [time |-> anchor + (k - 1) * BarSeconds, open |-> b.open, high |-> b.high,
             low |-> b.low, close |-> b.close, volume |-> b.volume]]

\* the series the exchange may return: the time of the fifth bar from the end,
\* and the shapes of the last five bars, oldest first; the bars before are quiet
Feeds ==
    { Series(Noon, <<"B", "U", "U", "U", "U">>),
      Series(Noon, <<"Q", "B", "U", "U", "U">>),
      Series(Noon, <<"Q", "B", "D", "D", "D">>),
      Series(Noon, <<"Q", "S", "D", "D", "D">>),
      Series(Noon, <<"Q", "S", "U", "U", "U">>),
      Series(Noon, <<"Q", "Q", "Q", "Q", "B">>),
      Series(Noon, <<"Q", "Q", "Q", "B", "S">>),
      Series(Noon, <<"Z", "T", "U", "U", "U">>),
      Series(Noon, <<"Q", "W", "U", "U", "U">>),
      Series(Noon, <<"Q", "M", "U", "U", "U">>),
      Series(Late, <<"Q", "Q", "Q", "Q", "S">>) }
SpotFeeds == { Series(Noon, <<"Q", "B", "U", "U", "U">>) }

\* fetch_futures_open_interest: 0.0 on failure
OIValues == { 0, 1000, 1020 }

\* get_liquidation_heatmap: price level -> liquidation amount; empty on failure.
\* Around the last map a close of 100 or 92 finds a mass of LIQ_THRESHOLD (the
\* level at 58 is 50 away from 108, the one at 150.001 just over 50 from 100),
\* a close of 108 finds LIQ_THRESHOLD + 1.
Heatmaps ==
    { [p \in {} |-> 0],
      [p \in {100000} |-> 15000],
      [p \in {58000, 100000, 150001, 300000} |->
          IF p = 58000 THEN 4000 ELSE IF p = 100000 THEN 6000
          ELSE IF p = 150001 THEN 1 ELSE 99999] }

(* ----------------------------- main loop ---------------------------- *)
VARIABLES
    pc,               \* where main_loop stands
    oi_hist,          \* main_loop's oi_hist
    recent_signals,   \* main_loop's recent_signals
    candles, buy_idxs, sell_idxs, cvd, oi, heatmap,   \* locals of one iteration
    pos,              \* how many of buy_idxs + sell_idxs the for loop has taken
    alerts,           \* the send_alert calls of this iteration, in order
    err,              \* what "main loop err:" printed in this iteration, or "none"
    sig_order,        \* the keys of recent_signals, in the order they were added
    notified,         \* every key send_alert was ever called for
    cycle             \* iterations completed, up to MaxCycles

vars == <<pc, oi_hist, recent_signals, candles, buy_idxs, sell_idxs, cvd, oi,
          heatmap, pos, alerts, err, sig_order, notified, cycle>>

dedup == <<recent_signals, sig_order, notified>>

\* sig_key = (FUTURES_SYMBOL, c["time"]): the symbol is the same constant in
\* every key of a process, so a key is held as its candle time
sig_key(c) == c.time

\* keys notified earlier in the process's life: the bars of the session hours
\* of the days before day 100, oldest first
old_key(j) ==
    ((j - 1) \div 20) * DaySeconds + NY_START_UTC * 3600 + ((j - 1) % 20) * BarSeconds

\* open-interest samples of the earlier cycles
old_oi(n) == [i \in 1..n |-> IF n < 12 THEN 1000 ELSE 1000 + (i % 3)]

\* the process right after start, after 11 cycles, and after a long run that
\* has filled the history and brought the dedup set to its cap
Ages == { [n_oi |-> 0, n_keys |-> 0],
          [n_oi |-> 11, n_keys |-> 0],
          [n_oi |-> OI_HIST_MAX, n_keys |-> SIGNALS_CAP] }

Init ==
    \E age \in Ages :
        /\ pc = "fetch"
        /\ oi_hist = old_oi(age.n_oi)
        /\ sig_order = [j \in 1..age.n_keys |-> old_key(j)]
        /\ recent_signals = {old_key(j) : j \in 1..age.n_keys}
        /\ notified = {old_key(j) : j \in 1..age.n_keys}
        /\ candles = <<>> /\ buy_idxs = <<>> /\ sell_idxs = <<>> /\ cvd = <<>>
        /\ oi = 0 /\ heatmap = <<>> /\ pos = 0 /\ alerts = <<>>
        /\ err = "none"
        /\ cycle = 0

\* a faulty variant: an exception leaves the loop
on_exception_propagate == "exit"

\* except Exception as e: print(...), then the sleep of line 307
on_exception == "sleep"

\* lines 247-255
FetchCandles ==
    /\ pc = "fetch"
    /\ \E fut \in {<<>>} \cup (IF cycle < MaxCycles THEN Feeds ELSE {}),
          spot \in {<<>>} \cup (IF cycle < MaxCycles THEN SpotFeeds ELSE {}) :
          LET got == IF fut # <<>> THEN fut ELSE spot
              d == detect_stop_hunt_and_footprint(got)
          IN  IF got = <<>>
              THEN /\ pc' = "sleep_in_try"
                   /\ UNCHANGED <<candles, buy_idxs, sell_idxs, cvd, err>>
              ELSE IF d.raised
              THEN /\ pc' = on_exception
                   /\ err' = "ZeroDivisionError"
                   /\ UNCHANGED <<candles, buy_idxs, sell_idxs, cvd>>
              ELSE /\ pc' = "oi"
                   /\ candles' = got
                   /\ buy_idxs' = d.buy_idxs
                   /\ sell_idxs' = d.sell_idxs
                   /\ cvd' = d.cvd
                   /\ UNCHANGED err
    /\ UNCHANGED <<oi_hist, oi, heatmap, pos, alerts, dedup, cycle>>

\* a faulty variant: the trim keeps the oldest samples
oi_append_keep_oldest(hist, v) ==
    IF v > 0
    THEN IF Len(hist) + 1 > OI_HIST_MAX THEN SubSeq(Append(hist, v), 1, OI_HIST_MAX)
         ELSE Append(hist, v)
    ELSE hist

\* lines 258-261
oi_append(hist, v) ==
    IF v # 0 /\ v > 0
    THEN LET h == Append(hist, v)
         IN  IF Len(h) > OI_HIST_MAX THEN LastN(h, OI_HIST_MAX) ELSE h
    ELSE hist

\* lines 257-261
FetchOI ==
    /\ pc = "oi"
    /\ \E v \in OIValues :
          /\ oi' = v
          /\ oi_hist' = oi_append(oi_hist, v)
    /\ pc' = "heatmap"
    /\ UNCHANGED <<candles, buy_idxs, sell_idxs, cvd, heatmap, pos, alerts, err, dedup, cycle>>

\* line 263
GetHeatmap ==
    /\ pc = "heatmap"
    /\ \E h \in Heatmaps : heatmap' = h
    /\ pc' = "loop"
    /\ UNCHANGED <<oi_hist, candles, buy_idxs, sell_idxs, cvd, oi, pos, alerts, err, dedup, cycle>>

\* a faulty variant: a flat cumulative delta counts as rising
cvd_rising_or_flat(cvd_, idx) ==
    LET cvd_after == SubSeq(cvd_, idx + 1, Len(cvd_))
    IN  Len(cvd_after) >= 1 /\ cvd_after[Len(cvd_after)] >= cvd_after[1]

\* lines 277-278
cvd_is_rising(cvd_, idx) ==
    LET cvd_after == SubSeq(cvd_, idx + 1, Len(cvd_))
    IN  Len(cvd_after) >= 2 /\ cvd_after[Len(cvd_after)] > cvd_after[1]

\* a faulty variant: the threshold itself qualifies
qualify_at_threshold(side, oi_spike, cvd_rising, liq_mass) ==
    IF side = "BUY" /\ oi_spike /\ cvd_rising /\ liq_mass >= LIQ_THRESHOLD THEN "BUY"
    ELSE IF side = "SELL" /\ oi_spike /\ ~cvd_rising /\ liq_mass >= LIQ_THRESHOLD THEN "SELL"
    ELSE "NONE"

\* lines 281-285: the side to alert, or NONE
qualify(side, oi_spike, cvd_rising, liq_mass) ==
    LET buy_ok == side = "BUY" /\ oi_spike /\ cvd_rising /\ liq_mass > LIQ_THRESHOLD
        sell_ok == side = "SELL" /\ oi_spike /\ ~cvd_rising /\ liq_mass > LIQ_THRESHOLD
    IN  IF buy_ok \/ sell_ok THEN (IF buy_ok THEN "BUY" ELSE "SELL") ELSE "NONE"

\* a faulty variant: the stop of a BUY is the candle's high
trade_plan_stop_swapped(c, side_str) ==
    LET sl == IF side_str = "BUY" THEN round2(c.high) ELSE round2(c.low)
        entry == round2(c.close)
    IN  [sl |-> sl, entry |-> entry,
         tp |-> IF side_str = "BUY" THEN round2(entry + (entry - sl) * RR)
                ELSE round2(entry - (sl - entry) * RR)]

\* lines 286-291
trade_plan(c, side_str) ==
    LET sl == IF side_str = "BUY" THEN round2(c.low) ELSE round2(c.high)
        entry == round2(c.close)
    IN  [sl |-> sl, entry |-> entry,
         tp |-> IF side_str = "BUY" THEN round2(entry + (entry - sl) * RR)
                ELSE round2(entry - (sl - entry) * RR)]

\* line 270
is_stale(idx, n) == idx < n - RECENT_BARS

\* a faulty variant: only a delivered alert is remembered
remember_if_delivered(delivered) == delivered

\* line 299 follows send_alert, which swallows its own failure (lines 230-237)
remember(delivered) == TRUE

idxs == buy_idxs \o sell_idxs

InSeq(x, s) == \E i \in 1..Len(s) : s[i] = x

\* lines 265-299: one pass of the for loop's body
ProcessCandidate ==
    /\ pc = "loop"
    /\ pos < Len(idxs)
    /\ pos' = pos + 1
    /\ LET idx == idxs[pos + 1]
           c == candles[idx + 1]
           key == sig_key(c)
           side == IF InSeq(idx, buy_idxs) THEN "BUY" ELSE "SELL"
           oi_spike == check_oi_spike(oi_hist)
           cvd_rising == cvd_is_rising(cvd, idx)
           liq_mass == liquidation_mass_near(c.close, heatmap, liq_window(c.close))
           side_str == qualify(side, oi_spike, cvd_rising, liq_mass)
           plan == trade_plan(c, side_str)
       IN  IF \/ key \in recent_signals
              \/ is_stale(idx, Len(candles))
              \/ (USE_NY_SESSION /\ ~is_in_ny_session(to_millis(c.time)))
              \/ side_str = "NONE"
           THEN UNCHANGED <<alerts, dedup>>
           ELSE \E delivered \in BOOLEAN :
                   /\ alerts' = Append(alerts,
                          [key |-> key, idx |-> idx, side |-> side_str, entry |-> plan.entry,
                           sl |-> plan.sl, tp |-> plan.tp, delivered |-> delivered])
                   /\ notified' = notified \cup {key}
                   /\ IF remember(delivered)
                      THEN /\ recent_signals' = recent_signals \cup {key}
                           /\ sig_order' = Append(sig_order, key)
                      ELSE UNCHANGED <<recent_signals, sig_order>>
    /\ UNCHANGED <<pc, oi_hist, candles, buy_idxs, sell_idxs, cvd, oi, heatmap, err, cycle>>

\* the locals of an iteration are dead once its try block is left
locals_dead ==
    /\ candles' = <<>> /\ buy_idxs' = <<>> /\ sell_idxs' = <<>> /\ cvd' = <<>>
    /\ oi' = 0 /\ heatmap' = <<>> /\ pos' = 0 /\ alerts' = <<>>

\* list(recent_signals): a set lists its keys in the order of their hash slots,
\* which the order of insertion does not decide.  The listings taken here are
\* the insertion order with any of the TruncFront latest keys moved to the front.
set_listings(order) ==
    LET n == Len(order)
        latest == {order[i] : i \in (IF n > TruncFront THEN n - TruncFront + 1 ELSE 1)..n}
    IN  { SelectSeq(order, LAMBDA k : k \in front)
            \o SelectSeq(order, LAMBDA k : k \notin front) : front \in SUBSET latest }

\* line 301
over_cap(n) == n > SIGNALS_CAP

\* lines 301-302, the end of the try block
EndLoop ==
    /\ pc = "loop"
    /\ pos >= Len(idxs)
    /\ IF over_cap(Cardinality(recent_signals))
       THEN \E listing \in set_listings(sig_order) :
               /\ recent_signals' = Range(LastN(listing, SIGNALS_KEEP))
               /\ sig_order' = SelectSeq(sig_order, LAMBDA k : k \in recent_signals')
       ELSE UNCHANGED <<recent_signals, sig_order>>
    /\ pc' = "sleep"
    /\ locals_dead
    /\ UNCHANGED <<oi_hist, err, notified, cycle>>

\* an exception inside the try block: lines 304-305
Raise ==
    /\ pc \in {"fetch", "oi", "heatmap", "loop", "sleep_in_try"}
    /\ err' = "Exception"
    /\ pc' = on_exception
    /\ locals_dead
    /\ UNCHANGED <<oi_hist, dedup, cycle>>

next_cycle == IF cycle < MaxCycles THEN cycle + 1 ELSE cycle

\* lines 251-253: time.sleep(POLL_SECONDS); continue
SleepNoCandles ==
    /\ pc = "sleep_in_try"
    /\ pc' = "fetch"
    /\ cycle' = next_cycle
    /\ locals_dead
    /\ err' = "none"
    /\ UNCHANGED <<oi_hist, dedup>>

\* line 307, then the next pass of while True
Sleep ==
    /\ pc = "sleep"
    /\ pc' = "fetch"
    /\ cycle' = next_cycle
    /\ locals_dead
    /\ err' = "none"
    /\ UNCHANGED <<oi_hist, dedup>>

Next ==
    \/ FetchCandles
    \/ FetchOI
    \/ GetHeatmap
    \/ ProcessCandidate
    \/ EndLoop
    \/ Raise
    \/ SleepNoCandles
    \/ Sleep

Spec == Init /\ [][Next]_vars

\* the interpreter runs the loop's next statement: no step waits forever
LiveSpec == Spec /\ WF_vars(Next)

(* ------------------------------ claims ------------------------------ *)
\* the for loop's body is running for the candidate at position pos + 1
TakesCandidate == pc = "loop" /\ pos' = pos + 1
\* that pass called send_alert
Alerted == Len(alerts') = Len(alerts) + 1
\* the for loop is over and line 301 is next
LoopDone == pc = "loop" /\ pos = Len(idxs)
\* lines 301-302 run
EndsLoop == pc = "loop" /\ pc' = "sleep" /\ err' = "none"

HourOf(t) == (t \div 3600) % 24
InSession(t) == NY_START_UTC <= HourOf(t) /\ HourOf(t) < NY_END_UTC
InLastBars(idx) == idx >= Len(candles) - RECENT_BARS
CvdRisingFrom(idx) == Len(cvd) - idx >= 2 /\ cvd[Len(cvd)] > cvd[idx + 1]
LiqMass(c) == liquidation_mass_near(c.close, heatmap, liq_window(c.close))
AlertFor(idx) == \E n \in 1..Len(alerts) : alerts[n].idx = idx
\* the candidate's key was not in the dedup set when the loop reached it
\* (asked while the loop runs: a key enters the set only with its alert)
WasNew(idx) == sig_key(candles[idx + 1]) \notin recent_signals \/ AlertFor(idx)

\* C1: over the process's life send_alert is called at most once for a signal
\* key: a key that was notified is not notified again, also after the dedup
\* set was truncated.
C1_AtMostOncePerKey ==
    [][Alerted => alerts'[Len(alerts')].key \notin notified]_vars

\* C2: a candidate that is not in the dedup set, is within the last 4 bars and
\* in the session is notified iff oiSpike and liquidityMass > LIQ_THRESHOLD and
\* (BUY with cvdRising, or SELL without); at liquidityMass = LIQ_THRESHOLD
\* nothing is emitted; the emitted side is the candidate's side.
C2_QualifiesIff ==
    [][TakesCandidate =>
        LET idx == idxs[pos + 1]
            c == candles[idx + 1]
            side == IF InSeq(idx, buy_idxs) THEN "BUY" ELSE "SELL"
            mass == LiqMass(c)
        IN  (sig_key(c) \notin recent_signals /\ InLastBars(idx) /\ InSession(c.time)) =>
              /\ Alerted <=>
                    /\ check_oi_spike(oi_hist)
                    /\ mass > LIQ_THRESHOLD
                    /\ \/ side = "BUY" /\ CvdRisingFrom(idx)
                       \/ side = "SELL" /\ ~CvdRisingFrom(idx)
              /\ mass = LIQ_THRESHOLD => ~Alerted
              /\ Alerted => /\ alerts'[Len(alerts')].side = side
                            /\ alerts'[Len(alerts')].idx = idx]_vars

\* a BUY candidate at the threshold, with the spike and a rising delta, was
\* taken and nothing was sent
C2_Witness ==
    /\ pc = "loop" /\ pos >= 1 /\ alerts = <<>>
    /\ LET idx == idxs[pos]
           c == candles[idx + 1]
       IN  /\ InSeq(idx, buy_idxs) /\ InLastBars(idx) /\ InSession(c.time)
           /\ sig_key(c) \notin recent_signals
           /\ check_oi_spike(oi_hist) /\ CvdRisingFrom(idx)
           /\ LiqMass(c) = LIQ_THRESHOLD

\* the scenario of C3 with the footprint bar at index idx: 25 bars, that bar
\* with low 90, high 110, open 105, close 108, volume 1000, the others of
\* volume 300, the latest open-interest sample 2% above the average before it,
\* the cumulative delta rising from idx onward, liquidation mass 15000
Scenario(idx) ==
    /\ Len(candles) = 25
    /\ LET c == candles[idx + 1]
       IN  /\ c.low = 90000 /\ c.high = 110000 /\ c.open = 105000 /\ c.close = 108000
           /\ c.volume = 1000
           /\ LiqMass(c) = 15000
           /\ InSession(c.time)
    /\ \A j \in 1..Len(candles) : j # idx + 1 => candles[j].volume = 300
    /\ Len(oi_hist) >= 12
    /\ oi_hist[Len(oi_hist)] * 10 * 100
          = 102 * SeqSum(SubSeq(oi_hist, Len(oi_hist) - 11, Len(oi_hist) - 2))
    /\ cvd[Len(cvd)] > cvd[idx + 1]

PlanSent(idx, side, sl, entry, tp) ==
    \E n \in 1..Len(alerts) :
        /\ alerts[n].idx = idx /\ alerts[n].side = side
        /\ alerts[n].sl = sl /\ alerts[n].entry = entry /\ alerts[n].tp = tp

\* C3 as stated: with the footprint bar at index 20 of 25 bars, one poll cycle
\* detects index 20 as a buy candidate and emits BUY with stopLoss 90, entry
\* 108, takeProfit 180.
C3_Original ==
    (LoopDone /\ Scenario(20) /\ WasNew(20)) =>
        /\ InSeq(20, buy_idxs)
        /\ PlanSent(20, "BUY", 90000, 108000, 180000)

\* C3 amended: the same scenario with the footprint bar at index 21, one of
\* the last 4 bars, its candle in the session and its key not yet notified:
\* the cycle detects index 21 and emits BUY with stopLoss 90, entry 108,
\* takeProfit 180.
C3_Amended ==
    (LoopDone /\ Scenario(21) /\ WasNew(21)) =>
        /\ InSeq(21, buy_idxs)
        /\ PlanSent(21, "BUY", 90000, 108000, 180000)

C3_Witness ==
    LoopDone /\ Scenario(21) /\ PlanSent(21, "BUY", 90000, 108000, 180000)

\* C4: every plan has entry = close, stopLoss = low (BUY) or high (SELL),
\* takeProfit = entry + (entry - stopLoss) * RR (BUY) or entry - (stopLoss -
\* entry) * RR (SELL), at 2 decimals; so stopLoss < entry < takeProfit for a
\* BUY and takeProfit < entry < stopLoss for a SELL.
C4_PlanLevels ==
    \A n \in 1..Len(alerts) :
        LET a == alerts[n]
            c == candles[a.idx + 1]
        IN  /\ a.entry = round2(c.close)
            /\ a.side = "BUY" =>
                  /\ a.sl = round2(c.low)
                  /\ a.tp = a.entry + (a.entry - a.sl) * RR
                  /\ a.sl < a.entry /\ a.entry < a.tp
            /\ a.side = "SELL" =>
                  /\ a.sl = round2(c.high)
                  /\ a.tp = a.entry - (a.sl - a.entry) * RR
                  /\ a.tp < a.entry /\ a.entry < a.sl

\* the average of the window of at most VOL_SMA_LEN volumes that ends at bar i
WindowSum(i) ==
    SeqSum([j \in 1..Min(i + 1, VOL_SMA_LEN) |->
               candles[i + 1 - Min(i + 1, VOL_SMA_LEN) + j].volume])
VolumeOk(i) ==
    candles[i + 1].volume * Min(i + 1, VOL_SMA_LEN) * VOL_MULT.den
        > WindowSum(i) * VOL_MULT.num
BuyRule(i) ==
    LET c == candles[i + 1]
    IN  /\ c.high - c.low > 0
        /\ VolumeOk(i)
        /\ (Min(c.open, c.close) - c.low) * WICK_RATIO.den >= WICK_RATIO.num * (c.high - c.low)
        /\ c.close > c.open
        /\ (c.high - c.low >= MIN_RANGE \/ MIN_RANGE = 0)
SellRule(i) ==
    LET c == candles[i + 1]
    IN  /\ c.high - c.low > 0
        /\ VolumeOk(i)
        /\ (c.high - Max(c.open, c.close)) * WICK_RATIO.den >= WICK_RATIO.num * (c.high - c.low)
        /\ c.close < c.open
        /\ (c.high - c.low >= MIN_RANGE \/ MIN_RANGE = 0)

\* C5: index i is in the buy list iff high-low > 0, volume[i] > sma[i] *
\* VOL_MULT, lower wick ratio >= WICK_RATIO, close > open and the range
\* filter passes; the sell list mirrors it; a candle with high = low is in
\* neither list and raises no division error; no index is in both lists.
C5_DetectRule ==
    /\ err # "ZeroDivisionError"
    /\ \A i \in 0..(Len(candles) - 1) :
          /\ InSeq(i, buy_idxs) <=> BuyRule(i)
          /\ InSeq(i, sell_idxs) <=> SellRule(i)
          /\ candles[i + 1].high = candles[i + 1].low =>
                ~InSeq(i, buy_idxs) /\ ~InSeq(i, sell_idxs)
          /\ ~(InSeq(i, buy_idxs) /\ InSeq(i, sell_idxs))

\* a series with a candle of high = low and a buy candidate past bar
\* VOL_SMA_LEN was scanned
C5_Witness ==
    /\ pc = "oi"
    /\ \E i \in 1..Len(candles) : candles[i].high = candles[i].low
    /\ \E n \in 1..Len(buy_idxs) : buy_idxs[n] >= VOL_SMA_LEN

\* C6: a dedup set of more than 2000 keys at the end of a cycle is truncated
\* to exactly the 1000 most recently inserted keys.
C6_KeepsMostRecent ==
    [][(EndsLoop /\ Cardinality(recent_signals) > SIGNALS_CAP) =>
          recent_signals' = Range(LastN(sig_order, SIGNALS_KEEP))]_vars

\* C7: the history holds at most 500 samples, the most recently appended in
\* arrival order: a positive sample is appended, evicting the oldest of a full
\* history and nothing else; a cycle that appends nothing leaves it unchanged.
C7_RollingHistory ==
    /\ [](Len(oi_hist) <= OI_HIST_MAX)
    /\ [][IF pc = "oi" /\ pc' = "heatmap" /\ oi' > 0
          THEN IF Len(oi_hist) < OI_HIST_MAX
               THEN oi_hist' = Append(oi_hist, oi')
               ELSE oi_hist' = Append(Tail(oi_hist), oi')
          ELSE oi_hist' = oi_hist]_vars

\* a sample was appended to a full history and the oldest one left
C7_Witness ==
    /\ pc = "heatmap" /\ oi > 0
    /\ Len(oi_hist) = OI_HIST_MAX
    /\ oi_hist[OI_HIST_MAX] = oi
    /\ oi_hist[1] = old_oi(OI_HIST_MAX)[2]
    /\ oi_hist[1] # old_oi(OI_HIST_MAX)[1]

\* C8: whatever happens in an iteration, the loop goes on: a next iteration
\* always begins in the end, and it begins from the sleep of POLL_SECONDS.
C8_NextCycleBegins ==
    /\ []<>(pc = "fetch")
    /\ [][pc' = "fetch" => pc \in {"sleep", "sleep_in_try"}]_vars

\* an iteration that raised is at the sleep of line 307
C8_Witness == pc = "sleep" /\ err = "Exception" /\ cycle >= 1

\* C9: a qualified candidate's key enters the dedup set when send_alert
\* returns, delivered or not; an alert is only attempted for a key outside the
\* set; a key leaves the set only by the truncation.
C9_RememberedAfterSend ==
    [][/\ Alerted =>
            LET a == alerts'[Len(alerts')]
            IN  a.key \notin recent_signals /\ a.key \in recent_signals'
       /\ recent_signals' # recent_signals =>
            \/ Alerted /\ recent_signals' = recent_signals \cup {alerts'[Len(alerts')].key}
            \/ EndsLoop /\ Cardinality(recent_signals) > SIGNALS_CAP]_vars

\* an alert whose delivery failed, with its key in the dedup set
C9_Witness ==
    \E n \in 1..Len(alerts) : ~alerts[n].delivered /\ alerts[n].key \in recent_signals

\* C10: no BUY is emitted for the final candle of the series; a BUY is
\* emitted only for one of the three bars before the last.
C10_NoBuyOnLastBar ==
    \A n \in 1..Len(alerts) :
        alerts[n].side = "BUY" =>
            /\ alerts[n].idx # Len(candles) - 1
            /\ alerts[n].idx \in (Len(candles) - 4)..(Len(candles) - 2)

\* the final candle was a buy candidate with the spike and the liquidation
\* mass, was taken, and nothing was sent
C10_Witness ==
    /\ pc = "loop" /\ pos >= 1 /\ alerts = <<>>
    /\ LET idx == idxs[pos]
           c == candles[idx + 1]
       IN  /\ idx = Len(candles) - 1
           /\ InSeq(idx, buy_idxs) /\ InSession(c.time)
           /\ sig_key(c) \notin recent_signals
           /\ check_oi_spike(oi_hist)
           /\ LiqMass(c) > LIQ_THRESHOLD

====
